---- MODULE Spec2Model ----
(***************************************************************************)
(* Model of io-providers' SimulatedEnv (src/src/env/simulated.rs): an      *)
(* in-memory provider with four optional fields, four setters and four     *)
(* accessors that panic when their field is unset.                         *)
(*                                                                         *)
(* Option<T> is modelled as a sequence of length 0 (None) or 1 (Some(v)).  *)
(* A String is a TLA+ string, an OsString a sequence of bytes, a Path a    *)
(* sequence of components.  The history variables op, prev and lastSet     *)
(* record the calls made; they are not fields of the struct.  A panicking  *)
(* accessor takes `&self`, so the provider is unchanged and stays usable   *)
(* after the unwind (as under #[should_panic] / catch_unwind).             *)
(***************************************************************************)
EXTENDS Naturals, Sequences, FiniteSets

\* ---- bounds ----
MaxArgs == 2
MaxArgsOs == 2
MaxPathLen == 1

Strings == {"app", "arg1"}
OsStrings == {<<97>>, <<255>>}
Components == {"foo", "bar"}

RECURSIVE SeqsUpTo(_, _)
SeqsUpTo(S, n) ==
  IF n = 0 THEN {<<>>}
  ELSE LET R == SeqsUpTo(S, n - 1)
       IN  R \cup {Append(r, x) : r \in {q \in R : Len(q) = n - 1}, x \in S}

ArgVecs == SeqsUpTo(Strings, MaxArgs)
ArgOsVecs == SeqsUpTo(OsStrings, MaxArgsOs)
Paths == SeqsUpTo(Components, MaxPathLen)

\* ---- Option ----
None == <<>>
Some(v) == <<v>>

\* ---- results of a call ----
Unit == [kind |-> "unit", val |-> <<>>, msg |-> ""]
Ok(v) == [kind |-> "ok", val |-> v, msg |-> ""]
Yields(items) == [kind |-> "iter", val |-> items, msg |-> ""]
Panic(m) == [kind |-> "panic", val |-> <<>>, msg |-> m]

\* Option::expect: the contained value, or a panic carrying msg.
unwrap_or_default(opt, msg) ==
  IF opt = None THEN [panicked |-> FALSE, val |-> <<>>, msg |-> ""]
  ELSE [panicked |-> FALSE, val |-> opt[1], msg |-> ""]

expect(opt, msg) ==
  IF opt = None THEN [panicked |-> TRUE, val |-> <<>>, msg |-> msg]
  ELSE [panicked |-> FALSE, val |-> opt[1], msg |-> ""]

\* vec::IntoIter: yields the elements front to back until exhausted.
RECURSIVE into_iter(_)
into_iter(v) ==
  IF v = <<>> THEN <<>> ELSE <<Head(v)>> \o into_iter(Tail(v))

\* PathBuf::from(path.as_ref()): an owned copy, component by component.
PathBufParent(p) == [i \in 1..(IF Len(p) = 0 THEN 0 ELSE Len(p) - 1) |-> p[i]]

PathBufFrom(p) == [i \in 1..Len(p) |-> p[i]]

VARIABLES args, args_os, current_dir, current_exe, op, prev, lastSet

fields == <<args, args_os, current_dir, current_exe>>
vars == <<args, args_os, current_dir, current_exe, op, prev, lastSet>>

Call(name, arg, ret) == [name |-> name, arg |-> arg, ret |-> ret]
NoCall == Call("new", <<>>, Unit)

\* the call just made becomes the previous call
Shift == prev' = [name |-> op.name, arg |-> op.arg]

\* SimulatedEnv::new
Init ==
  /\ args = None
  /\ args_os = None
  /\ current_dir = None
  /\ current_exe = None
  /\ op = NoCall
  /\ prev = [name |-> "none", arg |-> <<>>]
  /\ lastSet = [set_args |-> None, set_args_os |-> None,
                set_current_dir |-> None, set_current_exe |-> None]

\* ---- setters ----
SetArgs ==
  \E a \in ArgVecs :
    /\ args' = Some(a)
    /\ op' = Call("set_args", a, Unit)
    /\ lastSet' = [lastSet EXCEPT !.set_args = Some(a)]
    /\ Shift
    /\ UNCHANGED <<args_os, current_dir, current_exe>>

SetArgsOsWrongField ==
  \E a \in ArgOsVecs :
    /\ args' = Some(a)
    /\ op' = Call("set_args_os", a, Unit)
    /\ lastSet' = [lastSet EXCEPT !.set_args_os = Some(a)]
    /\ Shift
    /\ UNCHANGED <<args_os, current_dir, current_exe>>

SetArgsOs ==
  \E a \in ArgOsVecs :
    /\ args_os' = Some(a)
    /\ op' = Call("set_args_os", a, Unit)
    /\ lastSet' = [lastSet EXCEPT !.set_args_os = Some(a)]
    /\ Shift
    /\ UNCHANGED <<args, current_dir, current_exe>>

SetCurrentExeIntended ==
  \E p \in Paths :
    /\ current_exe' = Some(PathBufFrom(p))
    /\ op' = Call("set_current_exe", p, Unit)
    /\ lastSet' = [lastSet EXCEPT !.set_current_exe = Some(p)]
    /\ Shift
    /\ UNCHANGED <<args, args_os, current_dir>>

\* line 42 assigns self.current_dir, not self.current_exe
SetCurrentExe ==
  \E p \in Paths :
    /\ current_dir' = Some(PathBufFrom(p))
    /\ op' = Call("set_current_exe", p, Unit)
    /\ lastSet' = [lastSet EXCEPT !.set_current_exe = Some(p)]
    /\ Shift
    /\ UNCHANGED <<args, args_os, current_exe>>

SetCurrentDirNoStore ==
  \E p \in Paths :
    /\ op' = Call("set_current_dir", p, Ok(<<>>))
    /\ lastSet' = [lastSet EXCEPT !.set_current_dir = Some(p)]
    /\ Shift
    /\ UNCHANGED <<args, args_os, current_dir, current_exe>>

SetCurrentDir ==
  \E p \in Paths :
    /\ current_dir' = Some(PathBufFrom(p))
    /\ op' = Call("set_current_dir", p, Ok(<<>>))
    /\ lastSet' = [lastSet EXCEPT !.set_current_dir = Some(p)]
    /\ Shift
    /\ UNCHANGED <<args, args_os, current_exe>>

\* ---- accessors (&self: no field is written) ----
ArgsMsg == "Env::args() was called before a simulated value was set"
ArgsOsMsg == "Env::args_os() was called before a simulated value was set"
CurrentDirMsg == "Env::current_dir() was called before a simulated value was set"
CurrentExeMsg == "Env::current_exe() was called before a simulated value was set"

ArgsTake ==
  LET r == expect(args, ArgsMsg)
  IN  /\ op' = Call("args", <<>>,
                    IF r.panicked THEN Panic(r.msg) ELSE Yields(into_iter(r.val)))
      /\ args' = None
      /\ Shift
      /\ UNCHANGED <<args_os, current_dir, current_exe, lastSet>>

Args ==
  LET r == expect(args, ArgsMsg)
  IN  /\ op' = Call("args", <<>>,
                    IF r.panicked THEN Panic(r.msg) ELSE Yields(into_iter(r.val)))
      /\ Shift
      /\ UNCHANGED <<args, args_os, current_dir, current_exe, lastSet>>

ArgsOs ==
  LET r == expect(args_os, ArgsOsMsg)
  IN  /\ op' = Call("args_os", <<>>,
                    IF r.panicked THEN Panic(r.msg) ELSE Yields(into_iter(r.val)))
      /\ Shift
      /\ UNCHANGED <<args, args_os, current_dir, current_exe, lastSet>>

CurrentDir ==
  LET r == expect(current_dir, CurrentDirMsg)
  IN  /\ op' = Call("current_dir", <<>>,
                    IF r.panicked THEN Panic(r.msg) ELSE Ok(r.val))
      /\ Shift
      /\ UNCHANGED <<args, args_os, current_dir, current_exe, lastSet>>

CurrentExe ==
  LET r == expect(current_exe, CurrentExeMsg)
  IN  /\ op' = Call("current_exe", <<>>,
                    IF r.panicked THEN Panic(r.msg) ELSE Ok(r.val))
      /\ Shift
      /\ UNCHANGED <<args, args_os, current_dir, current_exe, lastSet>>

Next ==
  \/ SetArgs
  \/ SetArgsOs
  \/ SetCurrentExe
  \/ SetCurrentDir
  \/ Args
  \/ ArgsOs
  \/ CurrentDir
  \/ CurrentExe

Spec == Init /\ [][Next]_vars

\* ---- helpers for the properties ----
IsFreshBut(f) ==
  /\ (f = "args" \/ args = None)
  /\ (f = "args_os" \/ args_os = None)
  /\ (f = "current_dir" \/ current_dir = None)
  /\ (f = "current_exe" \/ current_exe = None)

\* C1: after set_current_exe(P), the next call to current_exe() returns
\* Ok(P) and does not panic.
C1_SetExeThenCurrentExe ==
  (op.name = "current_exe" /\ prev.name = "set_current_exe")
    => op.ret = Ok(prev.arg)

\* C2: each setter changes only its own field; the three other fields keep
\* their value (and so their unset/panic behaviour) across the call.
C2_FrameStep ==
  /\ op'.name = "set_args"
       => (args_os' = args_os /\ current_dir' = current_dir /\ current_exe' = current_exe)
  /\ op'.name = "set_args_os"
       => (args' = args /\ current_dir' = current_dir /\ current_exe' = current_exe)
  /\ op'.name = "set_current_dir"
       => (args' = args /\ args_os' = args_os /\ current_exe' = current_exe)
  /\ op'.name = "set_current_exe"
       => (args' = args /\ args_os' = args_os /\ current_dir' = current_dir)

C2_SettersFrame == [][C2_FrameStep]_vars

\* C3: after set_args(S), args() yields exactly S in order, and every
\* further args() with no set_args in between yields S again.
C3_ArgsRoundTrip ==
  (op.name = "args" /\ lastSet.set_args /= None)
    => op.ret = Yields(lastSet.set_args[1])

\* a second consecutive args() on a two-element vector with distinct elements
C3_Witness ==
  /\ op.name = "args"
  /\ prev.name = "args"
  /\ lastSet.set_args /= None
  /\ op.ret.kind = "iter"
  /\ Len(op.ret.val) = 2
  /\ op.ret.val[1] /= op.ret.val[2]

\* C4: after set_args_os(S), args_os() yields exactly S in order, whether
\* the text arguments field is set or not.
C4_ArgsOsRoundTrip ==
  (op.name = "args_os" /\ lastSet.set_args_os /= None)
    => (op.ret.kind = "iter" /\ op.ret = Yields(lastSet.set_args_os[1]))

C4_Witness ==
  /\ op.name = "args_os"
  /\ prev.name = "set_args_os"
  /\ args /= None
  /\ op.ret.kind = "iter"
  /\ Len(op.ret.val) = 2
  /\ op.ret.val[1] /= op.ret.val[2]

\* C5: set_current_dir(P) returns Ok(()), and the next current_dir()
\* returns Ok(P).
C5_SetDirThenCurrentDir ==
  /\ op.name = "set_current_dir" => op.ret = Ok(<<>>)
  /\ (op.name = "current_dir" /\ prev.name = "set_current_dir")
       => op.ret = Ok(prev.arg)

C5_Witness ==
  /\ op.name = "current_dir"
  /\ prev.name = "set_current_dir"
  /\ op.ret.kind = "ok"
  /\ Len(op.ret.val) = MaxPathLen

\* C6: an accessor whose field is unset panics; it returns neither an
\* empty/default value nor a recoverable error.  In particular all four
\* accessors panic on a fresh provider.
C6_UnsetPanics ==
  /\ (op.name = "args" /\ args = None) => op.ret.kind = "panic"
  /\ (op.name = "args_os" /\ args_os = None) => op.ret.kind = "panic"
  /\ (op.name = "current_dir" /\ current_dir = None) => op.ret.kind = "panic"
  /\ (op.name = "current_exe" /\ current_exe = None) => op.ret.kind = "panic"

\* an accessor has panicked on a provider on which no setter was ever called
C6_Witness ==
  /\ IsFreshBut("none")
  /\ lastSet.set_args = None /\ lastSet.set_args_os = None
  /\ lastSet.set_current_dir = None /\ lastSet.set_current_exe = None
  /\ op.name \in {"args", "args_os", "current_dir"}
  /\ prev.name = "current_exe"
  /\ op.ret.kind = "panic"

\* C7: last write wins per field: each accessor returns the value most
\* recently passed to that field's own setter, unchanged by anything that
\* happens between two calls of that setter.
C7_LastWriteWins ==
  /\ (op.name = "args" /\ lastSet.set_args /= None)
       => op.ret = Yields(lastSet.set_args[1])
  /\ (op.name = "args_os" /\ lastSet.set_args_os /= None)
       => op.ret = Yields(lastSet.set_args_os[1])
  /\ (op.name = "current_dir" /\ lastSet.set_current_dir /= None)
       => op.ret = Ok(lastSet.set_current_dir[1])
  /\ (op.name = "current_exe" /\ lastSet.set_current_exe /= None)
       => op.ret = Ok(lastSet.set_current_exe[1])

\* C8: a field leaves Unset only through its own setter, and a Set field
\* never returns to Unset.
C8_MachineStep ==
  /\ (args = None /\ args' /= None) => op'.name = "set_args"
  /\ (args_os = None /\ args_os' /= None) => op'.name = "set_args_os"
  /\ (current_dir = None /\ current_dir' /= None) => op'.name = "set_current_dir"
  /\ (current_exe = None /\ current_exe' /= None) => op'.name = "set_current_exe"
  /\ args /= None => args' /= None
  /\ args_os /= None => args_os' /= None
  /\ current_dir /= None => current_dir' /= None
  /\ current_exe /= None => current_exe' /= None

C8_UnsetToSetMachine == [][C8_MachineStep]_vars

====
